---- MODULE Spec2Model ----
(***************************************************************************)
(* Session and authorization management of asset-core2.                    *)
(*                                                                         *)
(* The model follows src/src/app/dashboard/layout.tsx (the authentication  *)
(* backend: refresh-token ledger, login, refreshToken, token minting),     *)
(* the set-active-company and logout routes, and the database connector    *)
(* (db.execute / db.withTransaction over an InnoDB table).                 *)
(*                                                                         *)
(* Every request handler is cut at its database statements (its await      *)
(* points); the synchronous code between two statements belongs to the     *)
(* step of the statement it follows.  Statements that the handlers issue   *)
(* without awaiting them are kept in `pending` and reach the database in   *)
(* any order.  Time is counted in whole seconds, as the iat claim is.      *)
(***************************************************************************)
EXTENDS Integers, FiniteSets, Sequences, TLC

\* ---------------------------------------------------------------- bounds
MaxTicks == 2
MaxSleeps == 1
MaxRequests == 4
MaxJoinedAt == 1
MaxGranted == 3

\* ------------------------------------------------------------- universe
Procs == {"p1", "p2"}
Users == {"u1", "u2"}
Companies == {"c1", "c2"}
\* a company that has been deactivated (companies.is_active = false)
InactiveCompany == "c3"
company_is_active == [c \in Companies \cup {InactiveCompany} |-> c # InactiveCompany]
Emails == Users \cup {"unknown"}

user_type == [u \in Users |-> IF u = "u1" THEN "tenant" ELSE "system_admin"]

\* ------------------------------------------------------- token codec
JWT_EXPIRES_IN == <<7, "d">>
JWT_REFRESH_EXPIRES_IN == <<30, "d">>

multipliers(unit) ==
  CASE unit = "s" -> 1
    [] unit = "m" -> 60
    [] unit = "h" -> 60 * 60
    [] unit = "d" -> 24 * 60 * 60

parseExpiresIn(expiresIn) == expiresIn[1] * multipliers(expiresIn[2])

\* the payload the handlers build: sub, iat and the optional active company
tokenData(sub, iat, acid) == [sub |-> sub, iat |-> iat, active_company_id |-> acid]

NoClaims == tokenData("none", 0, "none")

\* jwt.sign is a function of payload, secret and options: exp = iat + expiresIn
generateToken(data) ==
  [sub |-> data.sub, iat |-> data.iat, active_company_id |-> data.active_company_id,
   exp |-> data.iat + parseExpiresIn(JWT_EXPIRES_IN)]

generateRefreshToken(data) ==
  [sub |-> data.sub, iat |-> data.iat, active_company_id |-> data.active_company_id,
   exp |-> data.iat + parseExpiresIn(JWT_REFRESH_EXPIRES_IN)]

\* a request that carries no token, and a string that is not a signed token
NoToken == [sub |-> "none", iat |-> 0, active_company_id |-> "none", exp |-> 0]
Garbage == [sub |-> "garbage", iat |-> 0, active_company_id |-> "none", exp |-> 0]

\* jwt.verify at clock t: the signature, then the expiry
jwtVerify(token, t) ==
  IF token = Garbage \/ token = NoToken THEN "JsonWebTokenError"
  ELSE IF t >= token.exp THEN "TokenExpiredError"
  ELSE "ok"

sha256(value) == <<"sha256", value>>

\* ------------------------------------------------------ rate limiter
\* the time of the limiter is counted in ticks of the clock; the window of
\* the two callers (60_000 ms) and their limits (30 and 60) are scaled down
WindowTicks == 2
LoginMax == 2
RefreshMax == 3
MaxElapsed == 4
MaxCalls == 6

\* the default policy
WINDOW_MS == 60 * 60 * 1000
MAX_REQUESTS == 1000

\* an option that is not given
NoOption == -1

\* the options of the login route and of the refresh route
LoginOptions == [windowMs |-> WindowTicks, max |-> LoginMax]
RefreshOptions == [windowMs |-> WindowTicks, max |-> RefreshMax]

\* `login:${ip}` and `refresh:${ip}`
Ips == {"ip1"}
Key(route, ip) == <<route, ip>>
Keys == {Key(route, ip) : route \in {"login", "refresh"}, ip \in Ips}

\* buckets.get(key) of a key that is not in the Map
NoCounter == [count |-> 0, resetAt |-> 0]

\* the test of the first branch with < in place of <=
expiredStrict(existing, t) == existing = NoCounter \/ existing.resetAt < t

\* !existing || existing.resetAt <= now
expired(existing, t) == existing = NoCounter \/ existing.resetAt <= t

\* the test of the second branch with <= in place of <
underLimitInclusive(existing, max) == existing.count <= max

\* existing.count < max
underLimit(existing, max) == existing.count < max

VARIABLES
  now,             \* the clock, in seconds
  ledger,          \* committed rows of refresh_tokens
  registered,      \* ids of the rows of users
  system_role,     \* users.system_role ("none": NULL)
  is_active,       \* users.is_active
  user_companies,  \* rows of user_companies
  last_login,      \* users.last_login_at (-1: never)
  issued,          \* tokens handed to a client in a response
  rotated,         \* raw refresh tokens for which a rotation returned ok
  pending,         \* statements issued without await, not yet executed
  pc,              \* position of each request slot
  req,             \* locals of each request
  resp,            \* what the request returned
  started,         \* number of requests started
  buckets,         \* the Map of the rate limiter: key -> Counter
  calls            \* the calls of rateLimit so far: key, time and result

vars == <<now, ledger, registered, system_role, is_active, user_companies, last_login, issued, rotated,
          pending, pc, req, resp, started, buckets, calls>>

\* ------------------------------------------------------------ ledger
Row(userId, hash, expiresAt, createdAt) ==
  [user_id |-> userId, token_hash |-> hash, expires_at |-> expiresAt,
   revoked |-> FALSE, created_at |-> createdAt]

\* INSERT INTO refresh_tokens ...: token_hash is UNIQUE
DuplicateEntry(L, hash) == \E r \in L : r.token_hash = hash

\* an INSERT that replaces the rows the user already has
storeRefreshTokenSingleSession(L, userId, token, expiresAt, t) ==
  {r \in L : r.user_id # userId} \cup {Row(userId, sha256(token), expiresAt, t)}

storeRefreshToken(L, userId, token, expiresAt, t) ==
  L \cup {Row(userId, sha256(token), expiresAt, t)}

\* UPDATE refresh_tokens SET revoked = TRUE WHERE token_hash = ?
revokeRefreshToken(L, token) ==
  {IF r.token_hash = sha256(token) THEN [r EXCEPT !.revoked = TRUE] ELSE r : r \in L}

\* the same statement without the user of the WHERE clause
revokeAllForUserEveryone(L, userId) ==
  {IF r.revoked = FALSE THEN [r EXCEPT !.revoked = TRUE] ELSE r : r \in L}

\* the same statement with the flag of the WHERE clause inverted
revokeAllForUserRevokedOnly(L, userId) ==
  {IF r.user_id = userId /\ r.revoked = TRUE THEN [r EXCEPT !.revoked = TRUE] ELSE r : r \in L}

\* UPDATE refresh_tokens SET revoked = TRUE WHERE user_id = ? AND revoked = FALSE
revokeAllForUser(L, userId) ==
  {IF r.user_id = userId /\ r.revoked = FALSE THEN [r EXCEPT !.revoked = TRUE] ELSE r : r \in L}

\* the same SELECT without the revoked flag
isRefreshTokenValidAnyRow(L, userId, token, t) ==
  \E r \in L : /\ r.token_hash = sha256(token)
               /\ r.user_id = userId
               /\ r.expires_at > t

\* SELECT ... WHERE token_hash = ? AND user_id = ? AND revoked = FALSE AND expires_at > ?
isRefreshTokenValid(L, userId, token, t) ==
  \E r \in L : /\ r.token_hash = sha256(token)
               /\ r.user_id = userId
               /\ r.revoked = FALSE
               /\ r.expires_at > t

\* DELETE FROM refresh_tokens WHERE revoked = TRUE [AND user_id = ?] [AND created_at < ?]
deleteRevokedRefreshTokens(L, userId, olderThan) ==
  {r \in L : ~ (/\ r.revoked = TRUE
                /\ (userId # "none" => r.user_id = userId)
                /\ (olderThan # -1 => r.created_at < olderThan))}

\* ------------------------------------------------------- request slots
\* no row of users
NoUser == [found |-> FALSE, user_type |-> "none", system_role |-> "none", is_active |-> FALSE]

IdleReq ==
  [op |-> "none", email |-> "unknown", pwOk |-> FALSE,
   token |-> NoToken, access |-> NoToken, companyId |-> "none",
   sub |-> "none", minted |-> NoClaims, upd |-> FALSE, insertedAt |-> 0,
   path |-> "none", peerOk |-> FALSE, replay |-> FALSE, snap |-> {}, swept |-> {},
   validAtStart |-> FALSE, activeAtStart |-> FALSE, registeredAtStart |-> FALSE,
   user |-> NoUser, required |-> {}, mode |-> "any",
   granted |-> {}, requiredPermission |-> <<>>, role |-> "none"]

\* the response of a request, with the request it answers; `resp` holds the
\* response sent in the last step (NoResp when the step sent none)
NoResp ==
  [proc |-> "none", op |-> "none", presented |-> NoToken, access |-> NoToken, sub |-> "none",
   companyId |-> "none", path |-> "none", peerOk |-> FALSE, replay |-> FALSE, snap |-> {},
   swept |-> {}, validAtStart |-> FALSE, activeAtStart |-> FALSE, registeredAtStart |-> FALSE,
   required |-> {}, mode |-> "any", user |-> NoUser,
   granted |-> {}, requiredPermission |-> <<>>, role |-> "none", thrown |-> FALSE,
   key |-> <<>>, at |-> 0,
   success |-> FALSE, status |-> 0, error |-> "none",
   token |-> NoToken, refreshToken |-> NoToken, companies |-> <<>>]

Fail(status, error) == [NoResp EXCEPT !.status = status, !.error = error]

\* BackendResponse { success: false, error }
BackendFail(error) == Fail(0, error)

Success(token, refreshToken, companies) ==
  [NoResp EXCEPT !.success = TRUE, !.status = 200, !.token = token,
                 !.refreshToken = refreshToken, !.companies = companies]

Answer(p, r, result) ==
  [result EXCEPT !.proc = p, !.op = r.op, !.presented = r.token, !.access = r.access,
                 !.sub = r.sub,
                 !.companyId = r.companyId, !.path = r.path, !.peerOk = r.peerOk,
                 !.replay = r.replay, !.snap = r.snap, !.swept = r.swept,
                 !.validAtStart = r.validAtStart, !.activeAtStart = r.activeAtStart,
                 !.registeredAtStart = r.registeredAtStart,
                 !.required = r.required, !.mode = r.mode]

InFlight(p) == pc[p] # "idle"

\* row locks of the open transactions: the row updated and the row inserted
LocksHeld(p) ==
  (IF pc[p] \in {"tx_insert", "tx_commit"} /\ req[p].upd
     THEN {sha256(req[p].token)} ELSE {})
  \cup
  (IF pc[p] = "tx_commit" THEN {sha256(generateRefreshToken(req[p].minted))} ELSE {})

\* a statement that touches the row with this hash waits for its lock
HashLocked(p, hash) == \E q \in Procs \ {p} : hash \in LocksHeld(q)
\* a statement that scans the rows of this user waits for their locks
UserLocked(p, userId) ==
  \E q \in Procs \ {p} : LocksHeld(q) # {} /\ req[q].sub = userId
AnyLocked == \E q \in Procs : LocksHeld(q) # {}

\* the slots are interchangeable: the second one serves a request only
\* while the first one is busy
CanStart(p) ==
  /\ ~ InFlight(p)
  /\ started < MaxRequests
  /\ p = "p2" => InFlight("p1")

StartStep(p, r, label) ==
  /\ pc' = [pc EXCEPT ![p] = label]
  /\ req' = [req EXCEPT ![p] = r]
  /\ resp' = NoResp
  /\ started' = started + 1

StartReturn(p, r, result) ==
  /\ UNCHANGED <<pc, req>>
  /\ resp' = Answer(p, r, result)
  /\ started' = started + 1

Step(p, label, r) ==
  /\ pc' = [pc EXCEPT ![p] = label]
  /\ req' = [req EXCEPT ![p] = r]
  /\ resp' = NoResp
  /\ UNCHANGED started

Return(p, r, result) ==
  /\ pc' = [pc EXCEPT ![p] = "idle"]
  /\ req' = [req EXCEPT ![p] = IdleReq]
  /\ resp' = Answer(p, r, result)
  /\ UNCHANGED started

Init ==
  /\ now = 0
  /\ buckets = [key \in Keys |-> NoCounter]
  /\ calls = <<>>
  /\ ledger = {}
  /\ registered = Users
  /\ system_role = [u \in Users |-> IF user_type[u] = "system_admin" THEN "super_admin" ELSE "none"]
  /\ is_active = [u \in Users |-> TRUE]
  /\ user_companies = {[user_id |-> "u1", company_id |-> "c1", is_active |-> TRUE,
                         is_primary |-> TRUE, joined_at |-> 0]}
  /\ last_login = [u \in Users |-> -1]
  /\ issued = {}
  /\ rotated = {}
  /\ pending = {}
  /\ pc = [p \in Procs |-> "idle"]
  /\ req = [p \in Procs |-> IdleReq]
  /\ resp = NoResp
  /\ started = 0

\* SELECT * FROM user_companies WHERE user_id = ? AND is_active = true
getUserCompaniesByUserId(userId) ==
  {m \in user_companies : m.user_id = userId /\ m.is_active}

\* ------------------------------------------------------------- login
\* the outcome of the checks login makes in this order: the user row, the
\* password, the active flag ("none": the login goes on)
loginErrorUserNotFound(found, isPasswordValid, active) ==
  IF ~ found THEN "User not found"
  ELSE IF ~ isPasswordValid THEN "Invalid email or password"
  ELSE IF ~ active THEN "Account is inactive. Please contact support."
  ELSE "none"

\* the same checks with the active flag tested before the password
loginErrorActiveFirst(found, isPasswordValid, active) ==
  IF ~ found THEN "Invalid email or password"
  ELSE IF ~ active THEN "Account is inactive. Please contact support."
  ELSE IF ~ isPasswordValid THEN "Invalid email or password"
  ELSE "none"

loginError(found, isPasswordValid, active) ==
  IF ~ found THEN "Invalid email or password"
  ELSE IF ~ isPasswordValid THEN "Invalid email or password"
  ELSE IF ~ active THEN "Account is inactive. Please contact support."
  ELSE "none"

\* loginSchema.parse, getUserByEmail, verifyPassword, the is_active check and
\* updateLastLogin (statements on the users table); then the tokens are
\* generated from the clock
LoginStart(p, email, pwOk) ==
  /\ CanStart(p)
  /\ LET r == [IdleReq EXCEPT !.op = "login", !.email = email, !.pwOk = pwOk]
         error == loginError(email \in registered, pwOk, email \in registered /\ is_active[email])
     IN
     IF error # "none"
       THEN /\ StartReturn(p, r, BackendFail(error))
            /\ UNCHANGED last_login
       ELSE /\ last_login' = [last_login EXCEPT ![email] = now]
            /\ StartStep(p, [r EXCEPT !.sub = email,
                                      !.minted = tokenData(email, now, "none")], "l_store")
  /\ UNCHANGED <<buckets, calls, now, registered, system_role, ledger, is_active, user_companies, issued, rotated, pending>>

\* ORDER BY joined_at ASC alone: may row a come before row b
orderByJoinedAt(a, b) == a.joined_at <= b.joined_at

\* ORDER BY uc.is_primary DESC, uc.joined_at ASC: may row a come before row b
orderByPrimaryJoinedAt(a, b) ==
  \/ a.is_primary /\ ~ b.is_primary
  \/ a.is_primary = b.is_primary /\ a.joined_at <= b.joined_at

\* the rows in every order the ORDER BY clause admits (rows that compare
\* equal come in either order)
Ordered(rows) ==
  LET n == Cardinality(rows) IN
  {s \in [1..n -> rows] :
     /\ \A i, j \in 1..n : i # j => s[i] # s[j]
     /\ \A i, j \in 1..n : i < j => orderByPrimaryJoinedAt(s[i], s[j])}

\* the companies query of login for a tenant user: the columns selected from
\* user_companies JOIN companies WHERE uc.user_id = ? AND uc.is_active = true
\* AND c.is_active = true; an empty list for every other user
LoginCompanies(userId) ==
  IF user_type[userId] = "tenant"
    THEN {[i \in DOMAIN s |-> [company_id |-> s[i].company_id,
                               is_primary |-> s[i].is_primary,
                               is_active |-> s[i].is_active]] :
            s \in Ordered({m \in user_companies :
                             /\ m.user_id = userId
                             /\ m.is_active
                             /\ company_is_active[m.company_id]})}
    ELSE {<<>>}

LoginResult(r, companies) ==
  Success(generateToken(r.minted), generateRefreshToken(r.minted), companies)

\* storeRefreshToken, the companies query of a tenant user, and the response
LoginStore(p) ==
  /\ pc[p] = "l_store"
  /\ LET rt == generateRefreshToken(req[p].minted) IN
     /\ ~ HashLocked(p, sha256(rt))
     /\ IF DuplicateEntry(ledger, sha256(rt))
          THEN /\ Return(p, req[p], BackendFail("Duplicate entry"))
               /\ UNCHANGED <<ledger, issued>>
          ELSE /\ ledger' = storeRefreshToken(ledger, req[p].sub, rt,
                                req[p].minted.iat + parseExpiresIn(JWT_REFRESH_EXPIRES_IN), now)
               /\ \E companies \in LoginCompanies(req[p].sub) :
                    Return(p, req[p], LoginResult(req[p], companies))
               /\ issued' = issued \cup {generateToken(req[p].minted), rt}
  /\ UNCHANGED <<buckets, calls, now, registered, system_role, is_active, user_companies, last_login, rotated, pending>>

\* ----------------------------------------------------------- refresh
\* jwt.verify of the presented token, then isRefreshTokenValid
RefreshStart(p, token) ==
  /\ CanStart(p)
  /\ token \in issued \cup {Garbage}
  /\ LET v == jwtVerify(token, now)
         r == [IdleReq EXCEPT !.op = "refresh", !.token = token, !.sub = token.sub,
                              !.replay = token \in rotated,
                              !.validAtStart = isRefreshTokenValid(ledger, token.sub, token, now),
                              !.activeAtStart = token.sub \in registered /\ is_active[token.sub]]
     IN
     CASE v = "TokenExpiredError" -> StartReturn(p, r, BackendFail("Refresh token has expired"))
       [] v = "JsonWebTokenError" -> StartReturn(p, r, BackendFail("Invalid refresh token"))
       [] OTHER -> IF isRefreshTokenValid(ledger, r.sub, token, now)
                     THEN StartStep(p, r, "r_getUser")
                     ELSE StartStep(p, r, "r_revokeAll")
  /\ UNCHANGED <<buckets, calls, now, registered, system_role, ledger, is_active, user_companies, last_login, issued, rotated, pending>>

\* the ledger says no: revokeAllForUser, then the generic error
RefreshRevokeAll(p) ==
  /\ pc[p] = "r_revokeAll"
  /\ ~ UserLocked(p, req[p].sub)
  /\ ledger' = revokeAllForUser(ledger, req[p].sub)
  /\ Return(p, req[p], BackendFail("Invalid refresh token"))
  /\ UNCHANGED <<buckets, calls, now, registered, system_role, is_active, user_companies, last_login, issued, rotated, pending>>

\* the hashes isRefreshTokenValid accepts for this user at clock t
ValidHashes(L, userId, t) ==
  {r.token_hash : r \in {x \in L : x.user_id = userId /\ ~ x.revoked /\ x.expires_at > t}}

\* the checks on the row getUserById returns, without the active flag
refreshUserErrorFoundOnly(found, active) ==
  IF ~ found THEN "User not found" ELSE "none"

\* the checks on the row getUserById returns ("none": the refresh goes on)
refreshUserError(found, active) ==
  IF ~ found THEN "User not found"
  ELSE IF ~ active THEN "Account is inactive"
  ELSE "none"

\* the payload of the new pair, without the claim of the presented token
refreshTokenDataPlain(decoded, t) == tokenData(decoded.sub, t, "none")

\* the payload of the new pair: sub and iat, and the active_company_id of
\* the presented token when it carries one
refreshTokenData(decoded, t) ==
  IF decoded.active_company_id # "none"
    THEN tokenData(decoded.sub, t, decoded.active_company_id)
    ELSE tokenData(decoded.sub, t, "none")

\* getUserById, the is_active check, then the new pair is generated from the
\* clock and rotateRefreshToken is called
RefreshGetUser(p) ==
  /\ pc[p] = "r_getUser"
  /\ LET error == refreshUserError(req[p].sub \in registered, is_active[req[p].sub]) IN
     IF error # "none"
       THEN Return(p, req[p], BackendFail(error))
       ELSE Step(p, "rot_select",
                 [req[p] EXCEPT
                    !.minted = refreshTokenData(req[p].token, now),
                    !.snap = ValidHashes(ledger, req[p].sub, now)])
  /\ UNCHANGED <<buckets, calls, now, registered, system_role, ledger, is_active, user_companies, last_login, issued, rotated, pending>>

\* ------------------------------------------------ rotateRefreshToken
\* SELECT * WHERE token_hash = ? AND user_id = ? AND revoked = FALSE
oldRows(L, userId, oldToken) ==
  {r \in L : r.token_hash = sha256(oldToken) /\ r.user_id = userId /\ r.revoked = FALSE}

\* SELECT revoked WHERE token_hash = ? AND user_id = ?
checkRows(L, userId, oldToken) ==
  {r \in L : r.token_hash = sha256(oldToken) /\ r.user_id = userId}

RotateSelect(p) ==
  /\ pc[p] = "rot_select"
  /\ IF oldRows(ledger, req[p].sub, req[p].token) = {}
       THEN Step(p, "rot_revokeAll", [req[p] EXCEPT !.path = "notFound"])
       ELSE Step(p, "tx_check", req[p])
  /\ UNCHANGED <<buckets, calls, now, registered, system_role, ledger, is_active, user_companies, last_login, issued, rotated, pending>>

\* what `checkRows[0].revoked === true` evaluates to for a revoked row: the
\* column is BOOLEAN, i.e. TINYINT(1), which the driver returns as the
\* number 1 unless the pool is configured to cast it to a boolean
revokedIsTrue == {TRUE, FALSE}

\* beginTransaction and the re-check, a plain (non-locking) read; the
\* UPDATE of the already-revoked branch is undone by the rollback
TxCheck(p) ==
  /\ pc[p] = "tx_check"
  /\ LET rows == checkRows(ledger, req[p].sub, req[p].token) IN
     \E seen \in (IF \E r \in rows : r.revoked THEN revokedIsTrue ELSE {FALSE}) :
       IF rows = {} \/ seen
         THEN Step(p, "rot_revokeAll", [req[p] EXCEPT !.path = "inTransaction"])
         ELSE Step(p, "tx_update", req[p])
  /\ UNCHANGED <<buckets, calls, now, registered, system_role, ledger, is_active, user_companies, last_login, issued, rotated, pending>>

\* the same UPDATE sent through the pool (db.execute) instead of the
\* transaction's connection: it commits at once and keeps no lock
TxUpdateAutocommit(p) ==
  /\ pc[p] = "tx_update"
  /\ ~ HashLocked(p, sha256(req[p].token))
  /\ ledger' = revokeRefreshToken(ledger, req[p].token)
  /\ Step(p, "tx_insert", [req[p] EXCEPT !.upd = FALSE])
  /\ UNCHANGED <<buckets, calls, now, registered, system_role, is_active, user_companies, last_login, issued, rotated, pending>>

\* UPDATE ... SET revoked = TRUE WHERE token_hash = ?: waits for the row lock,
\* then holds it; the write stays in the transaction
TxUpdate(p) ==
  /\ pc[p] = "tx_update"
  /\ ~ HashLocked(p, sha256(req[p].token))
  /\ Step(p, "tx_insert", [req[p] EXCEPT !.upd = DuplicateEntry(ledger, sha256(req[p].token))])
  /\ UNCHANGED <<buckets, calls, now, registered, system_role, ledger, is_active, user_companies, last_login, issued, rotated, pending>>

\* INSERT of the successor: a duplicate token_hash fails the transaction,
\* which is rolled back
TxInsert(p) ==
  /\ pc[p] = "tx_insert"
  /\ LET newHash == sha256(generateRefreshToken(req[p].minted)) IN
     /\ ~ HashLocked(p, newHash)
     /\ IF DuplicateEntry(ledger, newHash)
          THEN Step(p, "rot_revokeAll", [req[p] EXCEPT !.path = "rolledBack", !.upd = FALSE])
          ELSE Step(p, "tx_commit", [req[p] EXCEPT !.insertedAt = now])
  /\ UNCHANGED <<buckets, calls, now, registered, system_role, ledger, is_active, user_companies, last_login, issued, rotated, pending>>

\* what connection.commit() makes visible: the revoked flag of the locked
\* old row and the successor row, together
txCommit(L, oldToken, upd, newRow) ==
  (IF upd THEN revokeRefreshToken(L, oldToken) ELSE L) \cup {newRow}

\* commit; rotateRefreshToken returns ok and refreshToken returns the new pair
TxCommit(p) ==
  /\ pc[p] = "tx_commit"
  /\ LET rt == generateRefreshToken(req[p].minted)
         newRow == Row(req[p].sub, sha256(rt),
                       req[p].minted.iat + parseExpiresIn(JWT_REFRESH_EXPIRES_IN),
                       req[p].insertedAt)
     IN
     /\ ledger' = txCommit(ledger, req[p].token, req[p].upd, newRow)
     /\ resp' = Answer(p, [req[p] EXCEPT !.path = "ok"],
                       Success(generateToken(req[p].minted), rt, <<>>))
     /\ issued' = issued \cup {generateToken(req[p].minted), rt}
  /\ pc' = [pc EXCEPT ![p] = "idle"]
  /\ rotated' = rotated \cup {req[p].token}
  /\ req' = [q \in Procs |->
               IF q = p THEN IdleReq
               ELSE IF req[q].op = "refresh" /\ req[q].token = req[p].token /\ InFlight(q)
                 THEN [req[q] EXCEPT !.peerOk = TRUE]
                 ELSE req[q]]
  /\ UNCHANGED <<buckets, calls, now, registered, system_role, is_active, user_companies, last_login, pending, started>>

\* both reuse paths end in revokeAllForUser and {ok: false, reused: true},
\* which refreshToken reports as reuse
RotateRevokeAll(p) ==
  /\ pc[p] = "rot_revokeAll"
  /\ ~ UserLocked(p, req[p].sub)
  /\ ledger' = revokeAllForUser(ledger, req[p].sub)
  /\ Return(p, [req[p] EXCEPT !.swept = ValidHashes(ledger, req[p].sub, now)],
            BackendFail("Refresh token reuse detected"))
  /\ UNCHANGED <<buckets, calls, now, registered, system_role, is_active, user_companies, last_login, issued, rotated, pending>>

\* ------------------------------------------------- set-active-company
\* the same test without the comparison of the company id
hasAccessAnyCompany(companies, companyId) ==
  \E company \in companies : company.is_active

\* user.companies?.some(company => company.company_id === companyId && company.is_active)
hasAccess(companies, companyId) ==
  \E company \in companies : company.company_id = companyId /\ company.is_active

\* mintTokensForUser(userId, activeCompanyId) at clock t
mintTokensForUser(userId, activeCompanyId, t) ==
  LET payload == tokenData(userId, t, activeCompanyId) IN
  [token |-> generateToken(payload), refreshToken |-> generateRefreshToken(payload),
   expiresIn |-> parseExpiresIn(JWT_EXPIRES_IN)]

Stmt(stmt, userId, token, expiresAt) ==
  [stmt |-> stmt, user_id |-> userId, token |-> token, expires_at |-> expiresAt]

\* the whole handler: the Authorization header, verifyToken (a throw is
\* answered 500), getUserWithCompanies, the two 403 checks; then the tokens
\* are minted, the two ledger statements are issued without await and the
\* response is sent
SetActiveCompany(p, access, companyId) ==
  /\ CanStart(p)
  /\ access \in issued \cup {Garbage, NoToken}
  /\ LET sub == access.sub
         r == [IdleReq EXCEPT !.op = "setActive", !.access = access,
                              !.companyId = companyId, !.sub = sub,
                              !.registeredAtStart = sub \in registered]
         minted == mintTokensForUser(sub, companyId, now)
     IN
     IF access = NoToken
       THEN /\ StartReturn(p, r, Fail(401, "Unauthorized"))
            /\ UNCHANGED <<pending, issued>>
     ELSE IF jwtVerify(access, now) # "ok"
       THEN /\ StartReturn(p, r, Fail(500, "Internal server error"))
            /\ UNCHANGED <<pending, issued>>
     ELSE IF sub \notin registered
       THEN /\ StartReturn(p, r, Fail(404, "User not found"))
            /\ UNCHANGED <<pending, issued>>
     ELSE IF user_type[sub] # "tenant"
       THEN /\ StartReturn(p, r, Fail(403, "Only tenant users can set active company"))
            /\ UNCHANGED <<pending, issued>>
     ELSE IF ~ hasAccess(getUserCompaniesByUserId(sub), companyId)
       THEN /\ StartReturn(p, r, Fail(403, "Company access denied"))
            /\ UNCHANGED <<pending, issued>>
     ELSE /\ pending' = pending \cup
               {Stmt("revokeAllForUser", sub, NoToken, 0),
                Stmt("storeRefreshToken", sub, minted.refreshToken, now + minted.expiresIn)}
          /\ StartReturn(p, [r EXCEPT !.token = minted.refreshToken],
                         Success(minted.token, minted.refreshToken, <<>>))
          /\ issued' = issued \cup {minted.token, minted.refreshToken}
  /\ UNCHANGED <<buckets, calls, now, registered, system_role, ledger, is_active, user_companies, last_login, rotated>>

\* -------------------------------------------------------------- logout
\* the handler without the lookup of the user id in the access token
logoutUserIdIgnored(access, t) == "none"

\* try { verifyToken } catch { ignore }: the user id, when the access token verifies
logoutUserId(access, t) ==
  IF access # NoToken /\ jwtVerify(access, t) = "ok" THEN access.sub ELSE "none"

\* the exceptions raised while the handler runs: verifyToken throws on a
\* token that does not verify, request.json() throws when there is no body
logoutThrown(access, refreshToken, t) ==
  (IF access # NoToken /\ jwtVerify(access, t) # "ok" THEN {"verifyToken"} ELSE {})
    \cup (IF refreshToken = NoToken THEN {"request.json"} ELSE {})

\* the handler with only the try/catch around request.json()
logoutStatusUncaught(access, refreshToken, t) ==
  LET caught == {"request.json"} IN
  IF logoutThrown(access, refreshToken, t) \ caught = {} THEN 200 ELSE 500

\* the status the handler answers with: verifyToken and request.json() sit
\* in their own try/catch, the two revocations are not awaited; what is
\* not caught inside reaches the outer catch, which answers 500
logoutStatus(access, refreshToken, t) ==
  LET caught == {"verifyToken", "request.json"} IN
  IF logoutThrown(access, refreshToken, t) \ caught = {} THEN 200 ELSE 500

\* the whole handler
Logout(p, access, refreshToken) ==
  /\ CanStart(p)
  /\ access \in issued \cup {Garbage, NoToken}
  /\ refreshToken \in issued \cup {Garbage, NoToken}
  /\ LET userId == logoutUserId(access, now)
         status == logoutStatus(access, refreshToken, now)
     IN
     /\ pending' = pending
          \cup (IF refreshToken # NoToken
                  THEN {Stmt("revokeRefreshToken", "none", refreshToken, 0)} ELSE {})
          \cup (IF userId # "none"
                  THEN {Stmt("revokeAllForUser", userId, NoToken, 0)} ELSE {})
     /\ StartReturn(p, [IdleReq EXCEPT !.op = "logout", !.access = access,
                                      !.token = refreshToken, !.sub = userId],
                    IF status = 200 THEN Success(NoToken, NoToken, <<>>)
                    ELSE Fail(status, "Internal server error"))
  /\ UNCHANGED <<buckets, calls, now, registered, system_role, ledger, is_active, user_companies, last_login, issued, rotated>>

\* ------------------------------------- statements issued without await
ExecPending(s) ==
  /\ s \in pending
  /\ pending' = pending \ {s}
  /\ CASE s.stmt = "revokeAllForUser" ->
            /\ ~ UserLocked("none", s.user_id)
            /\ ledger' = revokeAllForUser(ledger, s.user_id)
       [] s.stmt = "revokeRefreshToken" ->
            /\ ~ HashLocked("none", sha256(s.token))
            /\ ledger' = revokeRefreshToken(ledger, s.token)
       [] s.stmt = "storeRefreshToken" ->
            /\ ~ HashLocked("none", sha256(s.token))
            /\ ledger' = IF DuplicateEntry(ledger, sha256(s.token)) THEN ledger
                         ELSE storeRefreshToken(ledger, s.user_id, s.token, s.expires_at, now)
  /\ UNCHANGED <<buckets, calls, now, registered, system_role, is_active, user_companies, last_login, issued, rotated,
                 pc, req, started>>
  /\ resp' = NoResp

\* --------------------------------------------------------- permissions
\* a string is the sequence of its pieces: the text between two colons is
\* one piece, a colon is the piece ":"
Permission(entity, action) == <<entity, ":", action>>

SUPER_ADMIN_PERMISSIONS == {Permission("*", "*")}

SUPPORT_ADMIN_PERMISSIONS == {Permission("*", "read"), Permission("users", "update"), Permission("system", "monitor")}

COMPANY_ADMIN_PERMISSIONS ==
  {Permission("assets", "*"), Permission("assets", "import"), Permission("assets", "export"),
   Permission("components", "*"), Permission("components", "transfer"),
   Permission("maintenance", "*"), Permission("maintenance", "assign"), Permission("maintenance", "schedule"),
   Permission("users", "*"), Permission("users", "manage"), Permission("users", "invite"), Permission("users", "configure"),
   Permission("companies", "read"), Permission("companies", "update"), Permission("companies", "configure"),
   Permission("files", "*"),
   Permission("reports", "*"), Permission("reports", "generate"), Permission("reports", "export")}

ASSET_MANAGER_PERMISSIONS ==
  {Permission("assets", "create"), Permission("assets", "read"), Permission("assets", "update"),
   Permission("components", "create"), Permission("components", "read"), Permission("components", "update"),
   Permission("maintenance", "create"), Permission("maintenance", "read"), Permission("maintenance", "update"),
   Permission("maintenance", "assign"), Permission("maintenance", "schedule"),
   Permission("users", "read"),
   Permission("companies", "read"),
   Permission("files", "upload"), Permission("files", "download"), Permission("files", "manage"),
   Permission("reports", "generate"), Permission("reports", "export")}

OPERATIONS_SUPERVISOR_PERMISSIONS ==
  {Permission("*", "read"), Permission("reports", "generate"), Permission("reports", "export")}

MAINTENANCE_TECHNICIAN_PERMISSIONS ==
  {Permission("assets", "read"),
   Permission("components", "read"), Permission("components", "update"),
   Permission("maintenance", "create"), Permission("maintenance", "read"), Permission("maintenance", "update"),
   Permission("files", "upload"), Permission("files", "download"),
   Permission("reports", "read")}

\* a value that is an array of strings, and a value that is none
Array(items) == [isArray |-> TRUE, items |-> items]
\* keys that every object literal inherits from Object.prototype; what is
\* stored under them is a function or an object, never an array
ObjectPrototype == {"constructor", "toString", "__proto__"}
inherited == [isArray |-> FALSE, items |-> {}]

\* roleMap[role] || []: the own keys of roleMap, then the inherited ones
\* (truthy values), and [] for the rest
getRolePermissions(role) ==
  CASE role = "super_admin" -> Array(SUPER_ADMIN_PERMISSIONS)
    [] role = "support_admin" -> Array(SUPPORT_ADMIN_PERMISSIONS)
    [] role = "company_admin" -> Array(COMPANY_ADMIN_PERMISSIONS)
    [] role = "asset_manager" -> Array(ASSET_MANAGER_PERMISSIONS)
    [] role = "operations_supervisor" -> Array(OPERATIONS_SUPERVISOR_PERMISSIONS)
    [] role = "maintenance_technician" -> Array(MAINTENANCE_TECHNICIAN_PERMISSIONS)
    [] role \in ObjectPrototype -> inherited
    [] OTHER -> Array({})

\* the position of the first colon of a string, 0 if it has none
indexOfColon(str) ==
  IF \E i \in 1..Len(str) : str[i] = ":"
    THEN CHOOSE i \in 1..Len(str) : str[i] = ":" /\ \A j \in 1..(i - 1) : str[j] # ":"
    ELSE 0

\* str.split(':'): the strings between the colons, at least one
RECURSIVE split(_)
split(str) ==
  LET i == indexOfColon(str) IN
  IF i = 0 THEN <<str>>
  ELSE <<SubSeq(str, 1, i - 1)>> \o split(SubSeq(str, i + 1, Len(str)))

\* `${value}` of a template literal: undefined is printed as "undefined"
undefined == <<"undefined">>
elementAt(array, i) == IF i <= Len(array) THEN array[i] ELSE undefined

\* the test without the wildcards
hasPermissionExact(userPermissions, requiredPermission) ==
  requiredPermission \in userPermissions

\* exact match, entity wildcard, action wildcard, global wildcard; entity and
\* action are the first two elements of requiredPermission.split(':')
hasPermission(userPermissions, requiredPermission) ==
  LET parts == split(requiredPermission)
      entity == elementAt(parts, 1)
      action == elementAt(parts, 2)
  IN
  \/ requiredPermission \in userPermissions
  \/ (entity \o <<":", "*">>) \in userPermissions
  \/ (<<"*", ":">> \o action) \in userPermissions
  \/ <<"*", ":", "*">> \in userPermissions

\* every() that answers false on the empty list
hasAllPermissionsNonEmpty(userPermissions, requiredPermissions) ==
  /\ requiredPermissions # {}
  /\ \A p \in requiredPermissions : hasPermission(userPermissions, p)

\* requiredPermissions.every(...) and requiredPermissions.some(...)
hasAllPermissions(userPermissions, requiredPermissions) ==
  \A permission \in requiredPermissions : hasPermission(userPermissions, permission)

hasAnyPermission(userPermissions, requiredPermissions) ==
  \E permission \in requiredPermissions : hasPermission(userPermissions, permission)

\* the spread [...rolePerms, ...explicitPerms] throws a TypeError when
\* rolePerms is no array
checkPermissionsThrows(userType, systemRole) ==
  userType = "system_admin" /\ ~ getRolePermissions(systemRole).isArray

\* systemRole is context.systemRole || '': "none" stands for null and ''
checkPermissionsForContext(userType, systemRole, permissions, required, mode) ==
  LET rolePerms == IF userType = "system_admin" THEN getRolePermissions(systemRole).items ELSE {}
      userPermissions == rolePerms \cup permissions
  IN
  IF mode = "all"
    THEN hasAllPermissions(userPermissions, required)
    ELSE hasAnyPermission(userPermissions, required)

\* ------------------------------------- createAuthContext and its callers
\* a lookup that keeps the role the account was created with
getUserByIdCached(userId) ==
  IF userId \in registered
    THEN [found |-> TRUE, user_type |-> user_type[userId],
          system_role |-> IF user_type[userId] = "system_admin" THEN "super_admin" ELSE "none",
          is_active |-> is_active[userId]]
    ELSE NoUser

\* SELECT * FROM users WHERE id = ?
getUserById(userId) ==
  IF userId \in registered
    THEN [found |-> TRUE, user_type |-> user_type[userId],
          system_role |-> system_role[userId], is_active |-> is_active[userId]]
    ELSE NoUser

\* what the callers of createAuthContext ask for
RequiredLists == {{Permission("users", "read")}, {Permission("users", "delete")},
                  {Permission("users", "read"), Permission("users", "delete")}}

\* the result of createAuthContext: the user row, and systemRole only for a
\* system administrator
ContextResult(user, companies) ==
  [Success(NoToken, NoToken, companies) EXCEPT
     !.user = [user EXCEPT !.system_role =
                 IF user.user_type = "system_admin" THEN user.system_role ELSE "none"]]

\* the message of the error verifyToken throws
verifyTokenError(v) ==
  IF v = "TokenExpiredError" THEN "Token has expired" ELSE "Invalid token"

\* a 401 of requireSystemAdmin, the 404 of GET /me, the failure of the bare call
ContextFailure(op, error) ==
  CASE op = "createAuthContext" -> BackendFail(error)
    [] op = "me" -> Fail(404, error)
    [] OTHER -> Fail(401, error)

\* the Authorization header, verifyToken and getUserById
ContextStart(p, op, token, required, mode) ==
  /\ CanStart(p)
  /\ token \in issued \cup {Garbage, NoToken}
  /\ LET v == jwtVerify(token, now)
         r == [IdleReq EXCEPT !.op = op, !.access = token, !.sub = token.sub,
                              !.required = required, !.mode = mode,
                              !.registeredAtStart = token.sub \in registered,
                              !.activeAtStart = token.sub \in registered /\ is_active[token.sub]]
         user == getUserById(token.sub)
     IN
     IF token = NoToken /\ op # "createAuthContext"
       THEN StartReturn(p, r, Fail(401, IF op = "me" THEN "Not authenticated" ELSE "Unauthorized"))
     ELSE IF v # "ok"
       THEN StartReturn(p, r, IF op = "me" THEN Fail(500, "Internal server error")
                              ELSE ContextFailure(op, verifyTokenError(v)))
     ELSE IF ~ user.found
       THEN StartReturn(p, r, ContextFailure(op, "User not found"))
     ELSE StartStep(p, [r EXCEPT !.user = user], "ctx_companies")
  /\ UNCHANGED <<buckets, calls, now, registered, system_role, ledger, is_active, user_companies, last_login,
                 issued, rotated, pending>>

\* the outcome of requireSystemAdminWithPermissions after its second context
permissionResponse(user, required, mode) ==
  IF checkPermissionsForContext(user.user_type, user.system_role, {}, required, mode)
    THEN Success(NoToken, NoToken, <<>>)
    ELSE Fail(403, "Insufficient permissions")

\* getUserCompaniesByUserId ends createAuthContext; each caller goes on from
\* the context
ContextCompanies(p) ==
  /\ pc[p] = "ctx_companies"
  /\ LET op == req[p].op
         user == req[p].user
     IN
     \E companies \in Ordered(getUserCompaniesByUserId(req[p].sub)) :
       CASE op = "createAuthContext" -> Return(p, req[p], ContextResult(user, companies))
         [] op = "me" ->
              IF user.user_type = "tenant"
                THEN Step(p, "me_details", req[p])
                ELSE Return(p, req[p], ContextResult(user, companies))
         [] op = "requireSystemAdmin" ->
              IF user.user_type # "system_admin"
                THEN Return(p, req[p], Fail(403, "Forbidden"))
                ELSE Return(p, req[p], [Success(NoToken, NoToken, <<>>) EXCEPT !.user = user])
         [] op = "requireSystemAdminWithPermissions" ->
              IF user.user_type # "system_admin"
                THEN Return(p, req[p], Fail(403, "Forbidden"))
                ELSE Step(p, "ctx2_user", req[p])
  /\ UNCHANGED <<buckets, calls, now, registered, system_role, ledger, is_active, user_companies, last_login,
                 issued, rotated, pending>>

\* GET /me of a tenant user: getUserCompaniesWithDetails
MeDetails(p) ==
  /\ pc[p] = "me_details"
  /\ \E companies \in Ordered({m \in user_companies :
                                /\ m.user_id = req[p].sub
                                /\ m.is_active
                                /\ company_is_active[m.company_id]}) :
       Return(p, req[p], ContextResult(req[p].user, companies))
  /\ UNCHANGED <<buckets, calls, now, registered, system_role, ledger, is_active, user_companies, last_login,
                 issued, rotated, pending>>

\* requireSystemAdminWithPermissions calls createAuthContext again: the
\* verification of the token and getUserById
Context2User(p) ==
  /\ pc[p] = "ctx2_user"
  /\ LET user == getUserById(req[p].sub) IN
     IF jwtVerify(req[p].access, now) # "ok"
       THEN Return(p, req[p], Fail(401, verifyTokenError(jwtVerify(req[p].access, now))))
     ELSE IF ~ user.found
       THEN Return(p, req[p], Fail(401, "User not found"))
     ELSE Step(p, "ctx2_companies", [req[p] EXCEPT !.user = user])
  /\ UNCHANGED <<buckets, calls, now, registered, system_role, ledger, is_active, user_companies, last_login,
                 issued, rotated, pending>>

\* the second getUserCompaniesByUserId, then checkPermissionsForContext
Context2Companies(p) ==
  /\ pc[p] = "ctx2_companies"
  /\ Return(p, req[p],
            [permissionResponse(req[p].user, req[p].required, req[p].mode)
               EXCEPT !.user = req[p].user])
  /\ UNCHANGED <<buckets, calls, now, registered, system_role, ledger, is_active, user_companies, last_login,
                 issued, rotated, pending>>

\* ------------------------------------------- calls of the permission helpers
\* the inputs of the calls
Entities == {"users", "assets"}
Actions == {"read", "delete"}
\* strings that split(':') cuts into one, three and (with an empty action)
\* two elements
NoColon == <<"users">>
ThreeSegments == <<"users", ":", "read", ":", "own">>
EmptyAction == <<"users", ":">>
GrantedStrings ==
  {Permission(e, a) : e \in Entities \cup {"*"}, a \in Actions \cup {"*"}}
    \cup {NoColon, ThreeSegments, <<"*", ":", "undefined">>}
\* granted sets of at most MaxGranted strings
GrantedSets == {g \in SUBSET GrantedStrings : Cardinality(g) <= MaxGranted}
RequiredStrings ==
  {Permission(e, a) : e \in Entities, a \in Actions}
    \cup {NoColon, ThreeSegments, EmptyAction}
\* required lists of at most two strings, the empty list among them
RequiredSets == {R \in SUBSET RequiredStrings : Cardinality(R) <= 2}
ExplicitSets == SUBSET {Permission("users", "read"), Permission("users", "*"),
                        Permission("*", "delete")}
\* PERMISSION_CATEGORIES and PERMISSION_ACTIONS
PERMISSION_CATEGORIES ==
  {"assets", "components", "maintenance", "users", "companies", "files", "reports", "system"}
PERMISSION_ACTIONS ==
  {"create", "read", "update", "delete", "import", "export", "assign", "schedule",
   "manage", "invite", "configure", "transfer", "monitor"}
\* ROLE_TYPES, no role, a role that is not defined, and inherited keys
ROLE_TYPES == {"super_admin", "support_admin", "company_admin", "asset_manager",
               "operations_supervisor", "maintenance_technician"}
TenantRoles == {"company_admin", "asset_manager", "operations_supervisor",
                "maintenance_technician"}
RoleStrings == ROLE_TYPES \cup {"none", "auditor"} \cup ObjectPrototype

\* a call of a helper: its arguments are in the request, its value is
\* answered in one step and nothing else changes
Call(p, op, result) ==
  /\ pc[p] = "call"
  /\ req[p].op = op
  /\ Return(p, req[p], [result EXCEPT !.granted = req[p].granted,
                                      !.requiredPermission = req[p].requiredPermission,
                                      !.role = req[p].role, !.user = req[p].user])
  /\ UNCHANGED <<buckets, calls, now, ledger, registered, system_role, is_active, user_companies, last_login,
                 issued, rotated, pending>>

\* hasPermission(userPermissions, requiredPermission)
CallHasPermission(p) ==
  Call(p, "hasPermission",
       [NoResp EXCEPT !.success = hasPermission(req[p].granted, req[p].requiredPermission)])

\* hasPermission(getRolePermissions(role), "entity:action")
CallRoleHasPermission(p) ==
  Call(p, "roleHasPermission",
       [NoResp EXCEPT !.success = hasPermission(getRolePermissions(req[p].role).items,
                                                req[p].requiredPermission)])

\* getRolePermissions(role): whether the value is an array, and its elements
CallGetRolePermissions(p) ==
  Call(p, "getRolePermissions",
       [NoResp EXCEPT !.success = getRolePermissions(req[p].role).isArray,
                      !.snap = getRolePermissions(req[p].role).items])

\* hasAllPermissions / hasAnyPermission(userPermissions, requiredPermissions)
CallHasAllPermissions(p) ==
  Call(p, "hasAllPermissions",
       [NoResp EXCEPT !.success = hasAllPermissions(req[p].granted, req[p].required)])

CallHasAnyPermission(p) ==
  Call(p, "hasAnyPermission",
       [NoResp EXCEPT !.success = hasAnyPermission(req[p].granted, req[p].required)])

\* hasUserPermissions(user, required, mode): checkPermissionsForContext of
\* the context {userType, systemRole, permissions}
hasUserPermissions(p) ==
  LET user == req[p].user
      thrown == checkPermissionsThrows(user.user_type, user.system_role)
  IN
  Call(p, "hasUserPermissions",
       [NoResp EXCEPT !.thrown = thrown,
                      !.success = /\ ~ thrown
                                  /\ checkPermissionsForContext(
                                       user.user_type, user.system_role, req[p].granted,
                                       req[p].required, req[p].mode)])

\* a platform administrator with any role string, a tenant user with a
\* tenant role or none
UserContexts ==
  {<<"system_admin", role>> : role \in RoleStrings}
    \cup {<<"tenant", role>> : role \in TenantRoles \cup {"none"}}

\* the calls with their arguments; role is the system role of an
\* administrator and the membership role of a tenant user, whose context
\* has systemRole null
PermissionCalls ==
  {[IdleReq EXCEPT !.op = "hasPermission", !.granted = g, !.requiredPermission = r] :
     g \in GrantedSets, r \in RequiredStrings}
  \cup
  {[IdleReq EXCEPT !.op = "roleHasPermission", !.role = role,
                   !.requiredPermission = Permission(e, a)] :
     role \in ROLE_TYPES, e \in PERMISSION_CATEGORIES, a \in PERMISSION_ACTIONS}
  \cup
  {[IdleReq EXCEPT !.op = "getRolePermissions", !.role = role] : role \in RoleStrings}
  \cup
  {[IdleReq EXCEPT !.op = op, !.granted = g, !.required = R] :
     op \in {"hasAllPermissions", "hasAnyPermission"}, g \in ExplicitSets, R \in RequiredSets}
  \cup
  {[IdleReq EXCEPT !.op = "hasUserPermissions",
                   !.user = [found |-> TRUE, user_type |-> c[1], is_active |-> TRUE,
                             system_role |-> IF c[1] = "system_admin" THEN c[2] ELSE "none"],
                   !.role = c[2], !.granted = g, !.required = R, !.mode = mode] :
     c \in UserContexts, g \in ExplicitSets, R \in RequiredSets, mode \in {"any", "all"}}

InitPermissions ==
  /\ now = 0
  /\ buckets = [key \in Keys |-> NoCounter]
  /\ calls = <<>>
  /\ ledger = {}
  /\ registered = Users
  /\ system_role = [u \in Users |-> IF user_type[u] = "system_admin" THEN "super_admin" ELSE "none"]
  /\ is_active = [u \in Users |-> TRUE]
  /\ user_companies = {}
  /\ last_login = [u \in Users |-> -1]
  /\ issued = {}
  /\ rotated = {}
  /\ pending = {}
  /\ pc = [p \in Procs |-> IF p = "p1" THEN "call" ELSE "idle"]
  /\ \E call \in PermissionCalls : req = [p \in Procs |-> IF p = "p1" THEN call ELSE IdleReq]
  /\ resp = NoResp
  /\ started = 1

\* ------------------------------------------------------- environment
\* deleteUser: UPDATE users SET is_active = false
deleteUser(u) ==
  /\ u \in registered
  /\ is_active[u]
  /\ is_active' = [is_active EXCEPT ![u] = FALSE]
  /\ UNCHANGED <<buckets, calls, now, registered, system_role, ledger, user_companies, last_login, issued, rotated, pending,
                 pc, req, started>>
  /\ resp' = NoResp

\* updateUser(userId, {system_role}): UPDATE users SET system_role = ?
updateUser(u, role) ==
  /\ u \in registered
  /\ user_type[u] = "system_admin"
  /\ system_role[u] # role
  /\ system_role' = [system_role EXCEPT ![u] = role]
  /\ UNCHANGED <<buckets, calls, now, ledger, registered, is_active, user_companies, last_login, issued,
                 rotated, pending, pc, req, started>>
  /\ resp' = NoResp

\* the users the seed file inserts: u2 is the seeded administrator, u1 an
\* account that createUser made afterwards
SeedUsers == {"u2"}

\* the reset script with --full: every table is dropped, the migrations and
\* the seeds are run again; the tokens that were handed out stay with the
\* clients
resetDatabase ==
  /\ registered # SeedUsers
  /\ ~ AnyLocked
  /\ registered' = SeedUsers
  /\ system_role' = [u \in Users |-> IF user_type[u] = "system_admin" THEN "super_admin" ELSE "none"]
  /\ is_active' = [u \in Users |-> TRUE]
  /\ user_companies' = {}
  /\ last_login' = [u \in Users |-> -1]
  /\ ledger' = {}
  /\ UNCHANGED <<buckets, calls, now, issued, rotated, pending, pc, req, started>>
  /\ resp' = NoResp

\* removeUserFromCompany: UPDATE user_companies SET is_active = false
removeUserFromCompany(m) ==
  /\ m \in user_companies /\ m.is_active
  /\ user_companies' = (user_companies \ {m}) \cup {[m EXCEPT !.is_active = FALSE]}
  /\ UNCHANGED <<buckets, calls, now, registered, system_role, ledger, is_active, last_login, issued, rotated, pending,
                 pc, req, started>>
  /\ resp' = NoResp

\* the maintenance call deleteRevokedRefreshTokens(options)
Purge(userId, olderThan) ==
  /\ ~ AnyLocked
  /\ ledger' = deleteRevokedRefreshTokens(ledger, userId, olderThan)
  /\ ledger' # ledger
  /\ UNCHANGED <<buckets, calls, now, registered, system_role, is_active, user_companies, last_login, issued, rotated, pending,
                 pc, req, started>>
  /\ resp' = NoResp

\* one second passes
Tick ==
  /\ now % 60 < MaxTicks
  /\ now' = now + 1
  /\ UNCHANGED <<buckets, calls, ledger, registered, system_role, is_active, user_companies, last_login, issued,
                 rotated, pending,
                 pc, req, started>>
  /\ resp' = NoResp

\* a long time passes: the lifetime of an access token or of a refresh token
Sleep(d) ==
  /\ now < MaxSleeps * parseExpiresIn(JWT_EXPIRES_IN)
  /\ now' = now + d
  /\ UNCHANGED <<buckets, calls, ledger, registered, system_role, is_active, user_companies, last_login, issued,
                 rotated, pending,
                 pc, req, started>>
  /\ resp' = NoResp

\* rateLimit(key, options): the function has no await, it runs in one piece
rateLimit(key, options) ==
  /\ Len(calls) < MaxCalls
  /\ LET windowMs == IF options.windowMs = NoOption THEN WINDOW_MS ELSE options.windowMs
         max == IF options.max = NoOption THEN MAX_REQUESTS ELSE options.max
         existing == buckets[key]
         limited == [NoResp EXCEPT !.op = "rateLimit", !.key = key, !.at = now,
                                   !.status = 429, !.error = "Too Many Requests"]
         ok == [NoResp EXCEPT !.op = "rateLimit", !.key = key, !.at = now, !.success = TRUE]
     IN
     IF expired(existing, now)
       THEN /\ buckets' = [buckets EXCEPT ![key] = [count |-> 1, resetAt |-> now + windowMs]]
            /\ resp' = ok
     ELSE IF underLimit(existing, max)
       THEN /\ buckets' = [buckets EXCEPT ![key] = [existing EXCEPT !.count = existing.count + 1]]
            /\ resp' = ok
     ELSE /\ UNCHANGED buckets
          /\ resp' = limited
  /\ calls' = Append(calls, [key |-> key, at |-> now, ok |-> resp'.success])
  /\ UNCHANGED <<now, ledger, registered, system_role, is_active, user_companies, last_login,
                 issued, rotated, pending, pc, req, started>>

\* one tick of the limiter's clock passes
Elapse ==
  /\ now < MaxElapsed
  /\ now' = now + 1
  /\ UNCHANGED <<buckets, calls, ledger, registered, system_role, is_active, user_companies, last_login, issued,
                 rotated, pending,
                 pc, req, started>>
  /\ resp' = NoResp

\* the calls of the login route and of the refresh route, tick by tick
NextRate ==
  \/ \E ip \in Ips : rateLimit(Key("login", ip), LoginOptions)
  \/ \E ip \in Ips : rateLimit(Key("refresh", ip), RefreshOptions)
  \/ Elapse

SpecRate == Init /\ [][NextRate]_vars

\* login by the users `emails`, with a right or a wrong password
LoginSteps(emails) ==
  \/ \E p \in Procs, e \in emails, ok \in BOOLEAN : LoginStart(p, e, ok)
  \/ \E p \in Procs : LoginStore(p)

RefreshSteps ==
  \/ \E p \in Procs, t \in issued \cup {Garbage} : RefreshStart(p, t)
  \/ \E p \in Procs : RefreshRevokeAll(p)
  \/ \E p \in Procs : RefreshGetUser(p)
  \/ \E p \in Procs : RotateSelect(p)
  \/ \E p \in Procs : TxCheck(p)
  \/ \E p \in Procs : TxUpdate(p)
  \/ \E p \in Procs : TxInsert(p)
  \/ \E p \in Procs : TxCommit(p)
  \/ \E p \in Procs : RotateRevokeAll(p)

TenantSteps ==
  \/ \E p \in Procs, a \in issued \cup {Garbage, NoToken}, c \in Companies :
        SetActiveCompany(p, a, c)
  \/ \E s \in pending : ExecPending(s)

LogoutSteps ==
  \/ \E p \in Procs, a \in issued \cup {Garbage, NoToken},
        t \in issued \cup {Garbage, NoToken} : Logout(p, a, t)
  \/ \E s \in pending : ExecPending(s)

\* the refresh-token ledger of one identity under concurrent logins,
\* refreshes and purges, second by second
NextLedger ==
  \/ LoginSteps({"u1"})
  \/ RefreshSteps
  \/ \E u \in {"u1", "none"}, o \in {-1, now} : Purge(u, o)
  \/ deleteUser("u1")
  \/ Tick

\* login and tenant switch of both kinds of identity, memberships change
NextTenant ==
  \/ LoginSteps(Emails)
  \/ TenantSteps
  \/ \E m \in user_companies : removeUserFromCompany(m)
  \/ Tick

\* login and logout; access and refresh tokens expire
NextLogout ==
  \/ LoginSteps(Emails)
  \/ LogoutSteps
  \/ \E d \in {parseExpiresIn(JWT_EXPIRES_IN), parseExpiresIn(JWT_REFRESH_EXPIRES_IN)} : Sleep(d)

SpecLedger == Init /\ [][NextLedger]_vars

SpecTenant == Init /\ [][NextTenant]_vars

SpecLogout == Init /\ [][NextLogout]_vars

\* logins with known and unknown emails, right and wrong passwords, while
\* accounts are deactivated
NextLogin ==
  \/ LoginSteps(Emails)
  \/ \E u \in Users : deleteUser(u)
  \/ Tick

SpecLogin == Init /\ [][NextLogin]_vars

\* a caller of createAuthContext: the first context it builds
ContextSteps(ops) ==
  \/ \E p \in Procs, op \in ops, t \in issued \cup {Garbage, NoToken} :
        ContextStart(p, op, t, {}, "any")
  \/ \E p \in Procs : ContextCompanies(p)

\* requireSystemAdminWithPermissions: the first context, the second context
\* and the permission check
PermissionSteps ==
  \/ \E p \in Procs, t \in issued \cup {Garbage, NoToken},
        required \in RequiredLists, mode \in {"any", "all"} :
        ContextStart(p, "requireSystemAdminWithPermissions", t, required, mode)
  \/ \E p \in Procs : ContextCompanies(p)
  \/ \E p \in Procs : Context2User(p)
  \/ \E p \in Procs : Context2Companies(p)

\* createAuthContext while the directory changes
NextContext ==
  \/ LoginSteps(Users)
  \/ ContextSteps({"createAuthContext"})
  \/ \E u \in Users, role \in {"super_admin", "support_admin"} : updateUser(u, role)
  \/ \E m \in user_companies : removeUserFromCompany(m)

SpecContext == Init /\ [][NextContext]_vars

\* the guards of the administration endpoints while an administrator is
\* deactivated or given another role
NextAdmin ==
  \/ LoginSteps({"u2"})
  \/ ContextSteps({"requireSystemAdmin"})
  \/ PermissionSteps
  \/ \E role \in {"super_admin", "support_admin"} : updateUser("u2", role)
  \/ deleteUser("u2")

SpecAdmin == Init /\ [][NextAdmin]_vars

\* the endpoints that look the subject of a token up, and a reset of the
\* database
NextReset ==
  \/ LoginSteps({"u1"})
  \/ ContextSteps({"requireSystemAdmin", "me"})
  \/ \E p \in Procs : MeDetails(p)
  \/ TenantSteps
  \/ resetDatabase

SpecReset == Init /\ [][NextReset]_vars

\* the permission helpers on every input of the bounded sets
NextPermissions ==
  \/ \E p \in Procs : CallHasPermission(p)
  \/ \E p \in Procs : CallRoleHasPermission(p)
  \/ \E p \in Procs : CallGetRolePermissions(p)
  \/ \E p \in Procs : CallHasAllPermissions(p)
  \/ \E p \in Procs : CallHasAnyPermission(p)
  \/ \E p \in Procs : hasUserPermissions(p)

SpecPermissions == InitPermissions /\ [][NextPermissions]_vars

\* every caller of revokeAllForUser while two identities hold credentials:
\* logins with the right password, refreshes, logouts by access token and
\* tenant switches to c1
NextRevoke ==
  \/ \E p \in Procs, e \in Users : LoginStart(p, e, TRUE)
  \/ \E p \in Procs : LoginStore(p)
  \/ RefreshSteps
  \/ \E p \in Procs, a \in issued : SetActiveCompany(p, a, "c1")
  \/ \E p \in Procs, a \in issued : Logout(p, a, NoToken)
  \/ \E s \in pending : ExecPending(s)
  \/ Tick

SpecRevoke == Init /\ [][NextRevoke]_vars

\* a tenant user logs in, picks a company and refreshes, second by second
NextClaims ==
  \/ LoginSteps({"u1"})
  \/ TenantSteps
  \/ RefreshSteps
  \/ Tick

SpecClaims == Init /\ [][NextClaims]_vars

\* a tenant user picks a company and refreshes while the membership is
\* withdrawn, second by second
NextMembership ==
  \/ \E p \in Procs : LoginStart(p, "u1", TRUE)
  \/ \E p \in Procs : LoginStore(p)
  \/ \E p \in Procs, a \in issued : SetActiveCompany(p, a, "c1")
  \/ \E s \in pending : ExecPending(s)
  \/ RefreshSteps
  \/ \E m \in user_companies : removeUserFromCompany(m)
  \/ Tick

SpecMembership == Init /\ [][NextMembership]_vars

\* the membership row of user u in company c, when there is one
Membership(u, c) ==
  {{}} \cup {{[user_id |-> u, company_id |-> c, is_active |-> TRUE,
               is_primary |-> pr, joined_at |-> j]} : pr \in BOOLEAN, j \in 0..MaxJoinedAt}

\* the user_companies tables login is run against: unique (user_id, company_id)
Directories ==
  {a \cup b \cup c \cup d :
     a \in Membership("u1", "c1"), b \in Membership("u1", "c2"),
     c \in Membership("u1", InactiveCompany),
     d \in {{}, {[user_id |-> "u2", company_id |-> "c1", is_active |-> TRUE,
                  is_primary |-> TRUE, joined_at |-> 0]}}}

InitMembers ==
  /\ user_companies \in Directories
  /\ now = 0
  /\ buckets = [key \in Keys |-> NoCounter]
  /\ calls = <<>>
  /\ ledger = {}
  /\ registered = Users
  /\ system_role = [u \in Users |-> IF user_type[u] = "system_admin" THEN "super_admin" ELSE "none"]
  /\ is_active = [u \in Users |-> TRUE]
  /\ last_login = [u \in Users |-> -1]
  /\ issued = {}
  /\ rotated = {}
  /\ pending = {}
  /\ pc = [p \in Procs |-> "idle"]
  /\ req = [p \in Procs |-> IdleReq]
  /\ resp = NoResp
  /\ started = 0

\* logins against every directory, while memberships are removed
NextMembers ==
  \/ LoginSteps(Users)
  \/ \E m \in user_companies : removeUserFromCompany(m)

SpecMembers == InitMembers /\ [][NextMembers]_vars

\* login and logout of one identity, second by second
NextLogoutLive ==
  \/ LoginSteps({"u1"})
  \/ LogoutSteps
  \/ Tick

\* the statements a handler has issued were handed to the connection pool
\* before the handler went on, so the database executes them
SpecLogoutLive ==
  Init /\ [][NextLogoutLive]_vars /\ WF_vars(\E s \in pending : ExecPending(s))

\* the steps a refresh request takes after its first one
RefreshContinues ==
  \E p \in Procs : \/ RefreshRevokeAll(p) \/ RefreshGetUser(p) \/ RotateSelect(p)
                   \/ TxCheck(p) \/ TxUpdate(p) \/ TxInsert(p) \/ TxCommit(p)
                   \/ RotateRevokeAll(p)

\* the ledger specification with handlers that run to their end: each
\* handler awaits its statements and the database answers them
SpecLedgerFair ==
  SpecLedger /\ WF_vars(\E p \in Procs : LoginStore(p)) /\ WF_vars(RefreshContinues)

\* ===================================================================
\* Properties
\* ===================================================================

\* C1: of two refresh requests that present the same raw refresh token and
\* overlap in time, at most one succeeds: a refresh never returns a new pair
\* when a concurrent refresh of the same token has already returned one.
C1_AtMostOneRotation ==
  ~ (resp.op = "refresh" /\ resp.success /\ resp.peerOk)

\* C2: once a rotation of the raw token R has returned ok, every later
\* rotateRefreshToken call that presents R reports reuse and never ok,
\* whatever other ledger operations ran in between.
C2_SingleUse ==
  (resp.op = "refresh" /\ resp.replay /\ resp.path # "none") => resp.path # "ok"

\* C3: when rotateRefreshToken returns {ok: false, reused: true} for
\* identity I, no refresh credential of I that was valid when the call
\* started is valid under isRefreshTokenValid at the return, on the path
\* where no non-revoked record was found and on the paths that fail inside
\* the transaction.
C3_BlastRadius ==
  (resp.op = "refresh" /\ resp.path \in {"notFound", "inTransaction", "rolledBack"})
    => resp.snap \cap ValidHashes(ledger, resp.sub, now) = {}

\* reuse detected inside the transaction while the identity held several
\* valid credentials, one of them still valid when revokeAllForUser ran
C3_Witness ==
  /\ resp.op = "refresh"
  /\ resp.path = "inTransaction"
  /\ Cardinality(resp.snap) >= 2
  /\ resp.swept \cap resp.snap # {}
  /\ ValidHashes(ledger, resp.sub, now) = {}

\* C4: a refresh that presents a token already consumed by a successful
\* rotation fails and is reported as reuse ("Refresh token reuse detected"),
\* not as a generic invalid token.
C4_ReplayReportedAsReuse ==
  (resp.op = "refresh" /\ resp.replay)
    => (~ resp.success /\ resp.error = "Refresh token reuse detected")

\* C5: rotateRefreshToken revokes the old record and inserts the successor
\* as one atomic step: the statements of the open transaction change
\* nothing that other requests can read (so a rollback leaves nothing
\* behind), and the commit that makes rotateRefreshToken return ok shows the
\* old record revoked together with a non-revoked successor for the same
\* user with the new token's hash and the given expiry.
C5_AtomicRotation ==
  [][\A p \in Procs :
       /\ (pc[p] \in {"tx_update", "tx_insert"} /\ pc'[p] # pc[p]) => ledger' = ledger
       /\ (pc[p] = "tx_commit" /\ pc'[p] # pc[p]) =>
            /\ \A r \in ledger : r.token_hash = sha256(req[p].token)
                                    => [r EXCEPT !.revoked = TRUE] \in ledger'
            /\ \E r \in ledger' :
                 /\ r.token_hash = sha256(generateRefreshToken(req[p].minted))
                 /\ r.user_id = req[p].sub
                 /\ r.revoked = FALSE
                 /\ r.expires_at = req[p].minted.iat + parseExpiresIn(JWT_REFRESH_EXPIRES_IN)
    ]_vars

\* a rotation has just committed: the presented token is no longer valid and
\* the returned one is
C5_Witness ==
  /\ resp.op = "refresh"
  /\ resp.path = "ok"
  /\ \E r \in ledger : r.token_hash = sha256(resp.presented) /\ r.revoked
  /\ isRefreshTokenValid(ledger, resp.sub, resp.refreshToken, now)

\* C6: every issuance event (login, refresh rotation, set-active-company)
\* returns a raw refresh token that no earlier issuance event has returned.
C6_DistinctRefreshTokens ==
  [][(resp'.success /\ resp'.op \in {"login", "refresh", "setActive"})
       => resp'.refreshToken \notin issued]_vars

\* C7: a refresh that fails with any error other than reuse leaves the
\* ledger exactly as it was.
C7_OnlyReuseRevokes ==
  [][(resp'.op = "refresh" /\ ~ resp'.success
        /\ resp'.error # "Refresh token reuse detected")
       => ledger' = ledger]_vars

\* C8: when a successful set-active-company call returns, every refresh
\* credential the identity held before is invalid and the returned refresh
\* token is valid under isRefreshTokenValid.
C8_RevokeAndReplace ==
  (resp.op = "setActive" /\ resp.success)
    => /\ isRefreshTokenValid(ledger, resp.sub, resp.refreshToken, now)
       /\ ValidHashes(ledger, resp.sub, now) = {sha256(resp.refreshToken)}

\* C9: set-active-company called with a verified token by a non-tenant, or
\* by a tenant user for a company in which the user has no active
\* membership, answers 403, mints no token and leaves the ledger (and the
\* statements on their way to it) unchanged.
C9_Forbidden ==
  [][(/\ resp'.op = "setActive"
      /\ jwtVerify(resp'.access, now) = "ok"
      /\ \/ user_type[resp'.sub] # "tenant"
         \/ ~ \E m \in user_companies :
                 m.user_id = resp'.sub /\ m.company_id = resp'.companyId /\ m.is_active)
       => /\ resp'.status = 403
          /\ resp'.token = NoToken /\ resp'.refreshToken = NoToken
          /\ UNCHANGED <<ledger, pending, issued>>]_vars

\* a tenant user with an active membership elsewhere was refused a company
\* that exists
C9_Witness ==
  /\ resp.op = "setActive"
  /\ resp.status = 403
  /\ user_type[resp.sub] = "tenant"
  /\ resp.companyId \in Companies
  /\ getUserCompaniesByUserId(resp.sub) # {}

\* C10: logout answers with the success acknowledgement for every
\* combination of absent, malformed, expired, revoked or valid tokens.
C10_LogoutAlwaysSucceeds ==
  resp.op = "logout" => (resp.status = 200 /\ resp.success)

\* a logout that presents an expired access token and a refresh token that
\* an earlier logout has already revoked
C10_Witness ==
  /\ resp.op = "logout"
  /\ resp.status = 200
  /\ resp.access # NoToken /\ jwtVerify(resp.access, now) = "TokenExpiredError"
  /\ \E r \in ledger : r.token_hash = sha256(resp.presented) /\ r.revoked

\* the refresh tokens login can mint under SpecLogoutLive
LogoutTokens ==
  {generateRefreshToken(tokenData("u1", t, "none")) : t \in 0..MaxTicks}

\* C11: after a logout that carries refresh token r and an access token
\* verifying to identity I, r and every refresh credential of I that was
\* valid when logout answered eventually are invalid under
\* isRefreshTokenValid, although the handler does not wait for the
\* revocations.
C11_LogoutRevokesEventually ==
  /\ [](\A r \in ledger : \E t \in LogoutTokens : r.token_hash = sha256(t))
  /\ \A t \in LogoutTokens :
       (/\ resp.op = "logout"
        /\ jwtVerify(resp.access, now) = "ok"
        /\ \/ resp.presented = t
           \/ sha256(t) \in ValidHashes(ledger, resp.access.sub, now))
         ~> (\A u \in Users : ~ isRefreshTokenValid(ledger, u, t, now))

\* the revocations of a logout have all run: the identity held two
\* credentials and none is valid any more
C11_Witness ==
  /\ pending = {}
  /\ Cardinality({r \in ledger : r.user_id = "u1" /\ r.revoked}) >= 2
  /\ ValidHashes(ledger, "u1", now) = {}

\* C12: a login with an email unknown to the directory and a login with a
\* known email and a wrong password are the same transition: the same
\* failure ("Invalid email or password") is returned and the state (ledger,
\* last login, everything else) is affected in the same way, namely not at
\* all.
C12_NoAccountEnumeration ==
  [][\A p \in Procs, e \in Users, ok \in BOOLEAN :
       /\ LoginStart(p, "unknown", ok) <=> LoginStart(p, e, FALSE)
       /\ LoginStart(p, e, FALSE) =>
            /\ resp'.error = "Invalid email or password" /\ ~ resp'.success
            /\ UNCHANGED <<ledger, last_login, issued, is_active, user_companies>>
    ]_vars

\* a login was refused for its credentials while an earlier login of u1 had
\* left a ledger record and a last-login time
C12_Witness ==
  /\ resp.op = "login"
  /\ resp.error = "Invalid email or password"
  /\ last_login["u1"] >= 0
  /\ \E r \in ledger : r.user_id = "u1"

\* C13: login answers "Account is inactive" exactly when the account is
\* inactive and the presented password is right; an inactive account with a
\* wrong password gets "Invalid email or password".
C13_InactiveOnlyAfterPassword ==
  [][/\ \A p \in Procs, e \in Emails, ok \in BOOLEAN :
          LoginStart(p, e, ok) =>
            /\ (resp'.error = "Account is inactive. Please contact support.")
                  <=> (e \in Users /\ ~ is_active[e] /\ ok)
            /\ (e \in Users /\ ~ is_active[e] /\ ~ ok)
                  => resp'.error = "Invalid email or password"
     /\ (resp'.op = "login" /\ resp'.error = "Account is inactive. Please contact support.")
          => \E p \in Procs, e \in Users : ~ is_active[e] /\ LoginStart(p, e, TRUE)
    ]_vars

\* a deactivated account was told so
C13_Witness ==
  /\ resp.op = "login"
  /\ resp.error = "Account is inactive. Please contact support."
  /\ \E u \in Users : ~ is_active[u] /\ last_login[u] >= 0

C15_LoginMemberships ==
  (resp.op = "login" /\ resp.success) =>
    LET cs == resp.companies
        expected == {m \in user_companies :
                       /\ m.user_id = resp.sub
                       /\ m.is_active
                       /\ company_is_active[m.company_id]}
        row(i) == CHOOSE m \in user_companies :
                    m.user_id = resp.sub /\ m.company_id = cs[i].company_id
    IN
    IF user_type[resp.sub] = "tenant"
      THEN /\ Len(cs) = Cardinality(expected)
           /\ {cs[i].company_id : i \in 1..Len(cs)} = {m.company_id : m \in expected}
           /\ \A i, j \in 1..Len(cs) : i < j =>
                /\ row(i).is_primary \/ ~ row(j).is_primary
                /\ (row(i).is_primary = row(j).is_primary)
                     => row(i).joined_at <= row(j).joined_at
      ELSE cs = <<>>

\* a tenant user got two memberships back, the primary one first although
\* it joined last, while a third membership lies in a deactivated company
C15_Witness ==
  /\ resp.op = "login"
  /\ resp.success
  /\ Len(resp.companies) = 2
  /\ resp.companies[1].is_primary /\ ~ resp.companies[2].is_primary
  /\ \E m1, m2, m3 \in user_companies :
       /\ m1.user_id = resp.sub /\ m1.company_id = resp.companies[1].company_id
       /\ m2.user_id = resp.sub /\ m2.company_id = resp.companies[2].company_id
       /\ m1.joined_at > m2.joined_at
       /\ m3.user_id = resp.sub /\ m3.company_id = InactiveCompany /\ m3.is_active

\* C16: a refresh that presents a refresh token the ledger accepts, for an
\* identity that was deactivated before the request, fails with "Account is
\* inactive" and returns no access and no refresh token.
C16_RefreshInactive ==
  (resp.op = "refresh" /\ resp.validAtStart /\ ~ resp.activeAtStart)
    => /\ ~ resp.success
       /\ resp.error = "Account is inactive"
       /\ resp.token = NoToken /\ resp.refreshToken = NoToken

\* the refresh of a deactivated identity was refused although its refresh
\* token is still valid in the ledger
C16_Witness ==
  /\ resp.op = "refresh"
  /\ resp.error = "Account is inactive"
  /\ ~ is_active[resp.sub]
  /\ last_login[resp.sub] >= 0
  /\ isRefreshTokenValid(ledger, resp.sub, resp.presented, now)

\* C17: a successful refresh issues an access token and a refresh token whose
\* active_company_id is the one of the presented refresh token, and tokens
\* without that claim when the presented token has none, also when the
\* presented token itself comes from a refresh.
C17_CompanyClaimPreserved ==
  (resp.op = "refresh" /\ resp.success)
    => /\ resp.token.active_company_id = resp.presented.active_company_id
       /\ resp.refreshToken.active_company_id = resp.presented.active_company_id
       /\ resp.token.sub = resp.presented.sub
       /\ resp.refreshToken.sub = resp.presented.sub

\* the second of two successive refreshes of a session with an active
\* company: the presented token was minted later than the company was set
C17_Witness ==
  /\ resp.op = "refresh"
  /\ resp.success
  /\ resp.presented.active_company_id = "c1"
  /\ resp.refreshToken.active_company_id = "c1"
  /\ \E t \in rotated :
       /\ t # resp.presented
       /\ t.active_company_id = "c1"
       /\ t.iat < resp.presented.iat

\* C18: createAuthContext takes only the subject id from the token and reads
\* the rest from the directory in the call itself: the user row it holds is
\* the row of the users table when the call reads it, and the context it
\* returns carries the type and role of that row and the active memberships
\* of the subject when the call reads them, so a change of the role or of
\* the memberships before the reads of a later call with the same token is
\* in what that call returns.
C18_ContextReadsDirectory ==
  [][\A p \in Procs :
       /\ (pc[p] = "idle" /\ pc'[p] = "ctx_companies" /\ req'[p].op = "createAuthContext")
            => /\ req'[p].sub = req'[p].access.sub
               /\ req'[p].sub \in registered
               /\ req'[p].user.user_type = user_type[req'[p].sub]
               /\ req'[p].user.system_role = system_role[req'[p].sub]
       /\ (pc[p] = "ctx_companies" /\ req[p].op = "createAuthContext" /\ pc'[p] = "idle")
            => /\ resp'.success
               /\ resp'.user.user_type = req[p].user.user_type
               /\ resp'.user.system_role =
                    (IF req[p].user.user_type = "system_admin"
                       THEN req[p].user.system_role ELSE "none")
               /\ {resp'.companies[i] : i \in 1..Len(resp'.companies)}
                    = {m \in user_companies : m.user_id = req[p].sub /\ m.is_active}
               /\ Len(resp'.companies)
                    = Cardinality({m \in user_companies : m.user_id = req[p].sub /\ m.is_active})]_vars

\* two calls present the same access token; the role was changed between
\* their reads, and the call that read later returns the changed role
C18_Witness ==
  /\ resp.op = "createAuthContext"
  /\ resp.success
  /\ resp.user.system_role = "support_admin"
  /\ \E p \in Procs :
       /\ pc[p] = "ctx_companies"
       /\ req[p].op = "createAuthContext"
       /\ req[p].access = resp.access
       /\ req[p].user.system_role = "super_admin"

\* C19: a call of requireSystemAdmin or requireSystemAdminWithPermissions
\* that presents an unexpired access token of an account that was
\* deactivated before the call never returns ok.
C19_InactiveNeverOk ==
  (/\ resp.op \in {"requireSystemAdmin", "requireSystemAdminWithPermissions"}
   /\ jwtVerify(resp.access, now) = "ok"
   /\ resp.registeredAtStart
   /\ ~ resp.activeAtStart)
    => ~ resp.success

\* C20: a request whose token verifies while its subject has no row in the
\* users table is answered with status 401 by every endpoint, never with 404.
C20_MissingSubjectIs401 ==
  (/\ resp.op \in {"setActive", "me", "requireSystemAdmin"}
   /\ jwtVerify(resp.access, now) = "ok"
   /\ ~ resp.registeredAtStart)
    => resp.status = 401

\* the ledger rows of the identities other than userId are the same rows
\* before and after the step
OthersKept(userId) ==
  {r \in ledger' : r.user_id # userId} = {r \in ledger : r.user_id # userId}

\* C21: a step that runs revokeAllForUser(I), in a refresh that found the
\* presented token invalid, in a rotation that detected reuse, or as the
\* statement that logout or set-active-company issued, leaves every ledger
\* row of every other identity as it was (same hash, expiry and revoked
\* flag), so the credentials of the others stay valid; of the rows of I
\* only the revoked flag changes.
C21_RevokeAllOnlyOwnRows ==
  [][/\ \A p \in Procs :
          (RefreshRevokeAll(p) \/ RotateRevokeAll(p))
            => /\ OthersKept(req[p].sub)
               /\ \A u \in Users \ {req[p].sub} :
                    ValidHashes(ledger', u, now) = ValidHashes(ledger, u, now)
               /\ {[r EXCEPT !.revoked = TRUE] : r \in ledger'}
                    = {[r EXCEPT !.revoked = TRUE] : r \in ledger}
     /\ \A s \in pending :
          (s.stmt = "revokeAllForUser" /\ ExecPending(s))
            => /\ OthersKept(s.user_id)
               /\ \A u \in Users \ {s.user_id} :
                    ValidHashes(ledger', u, now) = ValidHashes(ledger, u, now)
               /\ {[r EXCEPT !.revoked = TRUE] : r \in ledger'}
                    = {[r EXCEPT !.revoked = TRUE] : r \in ledger}]_vars

\* reuse was detected on one identity and its valid credentials were
\* revoked while another identity holds a credential that is still valid
C21_Witness ==
  /\ resp.op = "refresh"
  /\ resp.error = "Refresh token reuse detected"
  /\ resp.swept # {}
  /\ ValidHashes(ledger, resp.sub, now) = {}
  /\ \E u \in Users \ {resp.sub} : ValidHashes(ledger, u, now) # {}

\* the rows a purge with these options may delete
Purgeable(userId, olderThan) ==
  {r \in ledger : /\ r.revoked = TRUE
                  /\ (userId # "none" => r.user_id = userId)
                  /\ (olderThan # -1 => r.created_at < olderThan)}

\* the first half of C22: a purge deletes only revoked rows that match its
\* filter, adds and changes none, and leaves isRefreshTokenValid as it was
\* for every token and user
PurgeDeletesOnlyRevoked ==
  [][\A u \in Users \cup {"none"}, o \in {-1} \cup 0..(MaxTicks + 1) :
       Purge(u, o) =>
         /\ ledger' \subseteq ledger
         /\ ledger \ ledger' \subseteq Purgeable(u, o)
         /\ \A v \in Users, t \in issued :
              isRefreshTokenValid(ledger', v, t, now) = isRefreshTokenValid(ledger, v, t, now)]_vars

\* C22: deleteRevokedRefreshTokens deletes only revoked rows that match its
\* user / created-before filter and does not change isRefreshTokenValid for
\* any token, and in the runs in which it is interleaved with login, refresh
\* and rotation a refresh that presents an already rotated token never
\* succeeds.
C22_PurgeIsSafe ==
  [][/\ \A u \in Users \cup {"none"}, o \in {-1} \cup 0..(MaxTicks + 1) :
          Purge(u, o) =>
            /\ ledger' \subseteq ledger
            /\ ledger \ ledger' \subseteq Purgeable(u, o)
            /\ \A v \in Users, t \in issued :
                 isRefreshTokenValid(ledger', v, t, now) = isRefreshTokenValid(ledger, v, t, now)
     /\ (resp'.op = "refresh" /\ resp'.replay) => ~ resp'.success]_vars

\* what the specification of hasPermission asks of a required string of the
\* form entity:action
Grants(granted, entity, action) ==
  \/ Permission(entity, action) \in granted
  \/ Permission(entity, "*") \in granted
  \/ Permission("*", action) \in granted
  \/ Permission("*", "*") \in granted

\* C23: for every granted set and every required permission entity:action,
\* hasPermission is true exactly when the granted set holds the required
\* string itself, entity:*, *:action or *:*; with only users:read granted,
\* users:delete is refused.
C23_HasPermissionWildcards ==
  (resp.op = "hasPermission"
     /\ \E e \in Entities, a \in Actions : resp.requiredPermission = Permission(e, a))
    => /\ \A e \in Entities, a \in Actions :
            resp.requiredPermission = Permission(e, a)
              => (resp.success <=> Grants(resp.granted, e, a))
       /\ (resp.granted = {Permission("users", "read")}
             /\ resp.requiredPermission = Permission("users", "delete"))
            => ~ resp.success

\* users:delete was asked of a set whose only way to grant it is the action
\* wildcard *:delete, next to strings that must not count
C23_Witness ==
  /\ resp.op = "hasPermission"
  /\ resp.requiredPermission = Permission("users", "delete")
  /\ resp.granted = {Permission("*", "delete"), Permission("users", "read"),
                     Permission("assets", "*")}
  /\ resp.success

\* C24: hasPermission grants nothing on a partial match: a required string
\* with three colon-separated segments, or with no colon, is satisfied only
\* by the same string or by *:* in the granted set, not by a granted
\* entity:* or *:action made of its first segments.
C24_NoPartialMatch ==
  (resp.op = "hasPermission"
     /\ resp.requiredPermission \in {ThreeSegments, NoColon}
     /\ resp.success)
    => \/ resp.requiredPermission \in resp.granted
       \/ Permission("*", "*") \in resp.granted

\* C25: checkPermissionsForContext is hasAllPermissions (mode all) or
\* hasAnyPermission (mode any) of the required list against the union of
\* the explicit permissions of the context and the permissions that
\* getRolePermissions gives for the role: the system role of a platform
\* administrator, the membership role of a tenant user.
C25_RoleBaseline ==
  (resp.op = "hasUserPermissions" /\ getRolePermissions(resp.role).isArray)
    => LET userPermissions == getRolePermissions(resp.role).items \cup resp.granted IN
       resp.success <=>
         (IF resp.mode = "all"
            THEN \A r \in resp.required : hasPermission(userPermissions, r)
            ELSE \E r \in resp.required : hasPermission(userPermissions, r))

\* the second half of C26: a platform administrator whose system role is
\* none of the six roles, or missing, and who has no explicit permissions is
\* authorized for no non-empty required list, in either mode
UnknownRoleNeverAuthorized ==
  (resp.op = "hasUserPermissions"
     /\ resp.user.user_type = "system_admin"
     /\ resp.role \notin ROLE_TYPES
     /\ resp.granted = {}
     /\ resp.required # {})
    => ~ resp.success

\* C26: getRolePermissions returns the empty array for every role string
\* that is none of the six defined roles, so a platform administrator with
\* an unknown or missing system role and no explicit permissions is denied
\* every non-empty required list in both modes.
C26_UnknownRoleFailsClosed ==
  /\ (resp.op = "getRolePermissions" /\ resp.role \notin ROLE_TYPES)
       => (resp.success /\ resp.snap = {})
  /\ (resp.op = "hasUserPermissions"
        /\ resp.user.user_type = "system_admin"
        /\ resp.role \notin ROLE_TYPES
        /\ resp.granted = {}
        /\ resp.required # {})
       => ~ resp.success

\* C27: support_admin is read-only: for every entity and every action other
\* than read, hasPermission(getRolePermissions('support_admin'),
\* entity:action) is false.
C27_SupportAdminReadOnly ==
  (resp.op = "roleHasPermission"
     /\ resp.role = "support_admin"
     /\ \E e \in PERMISSION_CATEGORIES, a \in PERMISSION_ACTIONS \ {"read"} :
          resp.requiredPermission = Permission(e, a))
    => ~ resp.success

\* C28 without the contexts whose role lookup is no array: hasAllPermissions
\* is the conjunction and hasAnyPermission the disjunction of hasPermission
\* over the required list, true and false on the empty list, and
\* checkPermissionsForContext with an empty required list answers true in
\* mode all and false in mode any
EmptyRequiredList ==
  /\ resp.op = "hasAllPermissions"
       => (resp.success <=> \A r \in resp.required : hasPermission(resp.granted, r))
  /\ resp.op = "hasAnyPermission"
       => (resp.success <=> \E r \in resp.required : hasPermission(resp.granted, r))
  /\ (resp.op = "hasAllPermissions" /\ resp.required = {}) => resp.success
  /\ (resp.op = "hasAnyPermission" /\ resp.required = {}) => ~ resp.success
  /\ (resp.op = "hasUserPermissions" /\ resp.required = {} /\ ~ resp.thrown)
       => (resp.success <=> resp.mode = "all")

\* C28: hasAllPermissions is the conjunction and hasAnyPermission the
\* disjunction of hasPermission over the required list; on the empty list
\* the first is true and the second false for every granted set, so
\* checkPermissionsForContext with an empty required list authorizes every
\* context in mode all and no context in mode any.
C28_EmptyListAllAny ==
  /\ resp.op = "hasAllPermissions"
       => (resp.success <=> \A r \in resp.required : hasPermission(resp.granted, r))
  /\ resp.op = "hasAnyPermission"
       => (resp.success <=> \E r \in resp.required : hasPermission(resp.granted, r))
  /\ (resp.op = "hasAllPermissions" /\ resp.required = {}) => resp.success
  /\ (resp.op = "hasAnyPermission" /\ resp.required = {}) => ~ resp.success
  /\ (resp.op = "hasUserPermissions" /\ resp.required = {})
       => (resp.success <=> resp.mode = "all")


\* C29: rotateRefreshToken reports reuse only for real reuse: a call whose
\* presented token was valid when the refresh started and still has its
\* non-revoked record when the call returns, while no other request is in
\* flight, returns ok and revokes no other record, also when the refresh is
\* made in the clock second in which the presented token was issued.
C29_ReuseOnlyForRealReuse ==
  [][\A p \in Procs :
       (/\ pc[p] \in {"tx_commit", "rot_revokeAll"} /\ pc'[p] = "idle"
        /\ req[p].validAtStart
        /\ ~ req[p].replay
        /\ ~ req[p].peerOk
        /\ oldRows(ledger, req[p].sub, req[p].token) # {}
        /\ \A q \in Procs \ {p} : ~ InFlight(q))
       => /\ resp'.success
          /\ \A r \in ledger : r.token_hash # sha256(req[p].token) => r \in ledger'
    ]_vars

\* the tokens that generateRefreshToken signs
IssuedAsRefreshToken(token) ==
  token = generateRefreshToken(tokenData(token.sub, token.iat, token.active_company_id))

\* C30: a refresh token cannot be used as an access token: createAuthContext
\* and the guards built on it never succeed for a request whose bearer
\* token was issued as a refresh token.
C30_RefreshTokenIsNoAccessToken ==
  (/\ resp.op \in {"createAuthContext", "requireSystemAdmin",
                   "requireSystemAdminWithPermissions", "me"}
   /\ IssuedAsRefreshToken(resp.access))
    => ~ resp.success

\* a non-revoked, unexpired record of the token's hash that belongs to the
\* token's subject
HasLiveRecord(token) ==
  \E r \in ledger : /\ r.token_hash = sha256(token)
                    /\ r.user_id = token.sub
                    /\ ~ r.revoked
                    /\ r.expires_at > now

\* C31: refreshToken returns a new pair only if the presented token had a
\* non-revoked, unexpired ledger record of its subject when the ledger was
\* checked: a refresh goes past the check only with such a record, a new
\* pair is returned only by a request that went past it, and a token signed
\* as an access token never yields a new pair.
C31_RefreshNeedsLiveRecord ==
  [][/\ \A p \in Procs :
          (pc[p] = "idle" /\ req'[p].op = "refresh" /\ pc'[p] = "r_getUser")
            => HasLiveRecord(req'[p].token)
     /\ (resp'.op = "refresh" /\ resp'.success)
          => /\ pc[resp'.proc] = "tx_commit"
             /\ resp'.validAtStart
             /\ resp'.presented # generateToken(tokenData(resp'.presented.sub,
                                                          resp'.presented.iat,
                                                          resp'.presented.active_company_id))
    ]_vars

\* a refresh has returned a new pair for a stored token while an access
\* token of the same login is known
C31_Witness ==
  /\ resp.op = "refresh"
  /\ resp.success
  /\ resp.validAtStart
  /\ IssuedAsRefreshToken(resp.presented)
  /\ \E a \in issued : ~ IssuedAsRefreshToken(a) /\ a.iat = resp.presented.iat

\* the refresh tokens login can mint for u1 within the clock's bound
LedgerTokens == {generateRefreshToken(tokenData("u1", t, "none")) : t \in 0..MaxTicks}

\* C32: revocation is permanent: once the record of a raw refresh token is
\* revoked, isRefreshTokenValid never again returns true for that token,
\* whatever logins, rotations and purges follow.
C32_RevocationIsPermanent ==
  \A t \in LedgerTokens :
    []((\E r \in ledger : r.token_hash = sha256(t) /\ r.revoked)
         => [](~ isRefreshTokenValid(ledger, t.sub, t, now)))

\* C33: after revokeAllForUser(I) has completed, no refresh credential that
\* an operation started before it produces is valid: a rotation that was in
\* flight when every record of I was revoked leaves no valid successor
\* behind when it commits.
C33_NoSuccessorAfterRevokeAll ==
  [][\A p \in Procs :
       (/\ pc[p] = "tx_commit" /\ pc'[p] = "idle"
        /\ req[p].validAtStart
        /\ \A r \in ledger : r.user_id = req[p].sub => r.revoked)
       => ValidHashes(ledger', req[p].sub, now') = {}
    ]_vars

\* C34: every token that carries active_company_id = c is issued to an
\* identity that has an active membership in company c when it is issued,
\* by set-active-company and by refresh alike.
C34_ClaimNeedsMembership ==
  [][(/\ resp'.success
      /\ resp'.op \in {"setActive", "refresh"}
      /\ resp'.refreshToken.active_company_id # "none")
       => \E m \in user_companies :
            /\ m.user_id = resp'.refreshToken.sub
            /\ m.company_id = resp'.refreshToken.active_company_id
            /\ m.is_active
    ]_vars

\* C35: the ledger expiry of every stored refresh credential is the expiry
\* of the refresh token itself, the issue time plus the refresh lifetime,
\* so a stored token that still verifies is not expired in the ledger.
C35_LedgerExpiryIsTokenExpiry ==
  \A r \in ledger : \A t \in issued :
    r.token_hash = sha256(t)
      => /\ r.expires_at = t.iat + parseExpiresIn(JWT_REFRESH_EXPIRES_IN)
         /\ r.expires_at = t.exp
         /\ jwtVerify(t, now) = "ok" => r.expires_at > now

\* the limit the route of a key passes to rateLimit
MaxOf(key) == IF key[1] = "login" THEN LoginMax ELSE RefreshMax

\* the calls of a key that returned ok at a time from `from` up to, not
\* including, `to`
Admitted(key, from, to) ==
  {i \in 1..Len(calls) : /\ calls[i].key = key /\ calls[i].ok
                         /\ calls[i].at >= from /\ calls[i].at < to}

\* C36: for a key called with fixed options, at most max calls return ok
\* between the creation of a bucket and its resetAt, the count of the bucket
\* is the number of those calls and never exceeds max, and a further call
\* in the window is rejected with status 429.
C36_AtMostMaxPerWindow ==
  /\ \A k \in Keys :
       buckets[k] # NoCounter
         => /\ buckets[k].count <= MaxOf(k)
            /\ Cardinality(Admitted(k, buckets[k].resetAt - WindowTicks, buckets[k].resetAt))
                 = buckets[k].count
  /\ (resp.op = "rateLimit" /\ ~ resp.success)
       => /\ resp.status = 429
          /\ buckets[resp.key].count = MaxOf(resp.key)
          /\ resp.at < buckets[resp.key].resetAt

\* a call of the login route is rejected in a window that holds LoginMax
\* admitted calls
C36_Witness ==
  /\ resp.op = "rateLimit" /\ resp.key = Key("login", "ip1")
  /\ ~ resp.success /\ resp.status = 429
  /\ Cardinality(Admitted(resp.key, buckets[resp.key].resetAt - WindowTicks,
                          buckets[resp.key].resetAt)) = LoginMax

\* C37: the limiter is a sliding-window limiter: in every interval of the
\* length of the window, wherever it starts, at most max calls of a key are
\* admitted.
C37_SlidingWindow ==
  \A k \in Keys : \A from \in 0..MaxElapsed :
    Cardinality(Admitted(k, from, from + WindowTicks)) <= MaxOf(k)

\* C38: a call of rateLimit changes only the bucket of its own key; a
\* rejected call changes nothing; the first call at or after resetAt is
\* admitted and starts a new window with count 1.
C38_OwnBucketOnly ==
  [][calls' # calls =>
       LET call == calls'[Len(calls')]
           k == call.key
       IN /\ \A j \in Keys \ {k} : buckets'[j] = buckets[j]
          /\ ~ call.ok => buckets' = buckets
          /\ (buckets[k] # NoCounter /\ buckets[k].resetAt <= now)
               => /\ call.ok
                  /\ buckets'[k] = [count |-> 1, resetAt |-> now + WindowTicks]
    ]_vars

\* a key was rejected, its window ran out, and the call at resetAt has
\* started a new window while the other key has a bucket of its own
C38_Witness ==
  /\ resp.op = "rateLimit" /\ resp.success
  /\ buckets[resp.key].count = 1
  /\ buckets[resp.key].resetAt = now + WindowTicks
  /\ \E i \in 1..Len(calls) : calls[i].key = resp.key /\ ~ calls[i].ok /\ calls[i].at = now - 1
  /\ \E j \in Keys \ {resp.key} : buckets[j] # NoCounter

====
